---- MODULE Spec2Model ----
(***************************************************************************)
(* simplegen: two indent-tracking line buffers,                            *)
(*   CodeBuffer      (src/src/code_buffer.rs, fields i32)                  *)
(*   IndentedPrinter (src/src/printer.rs,     fields u32)                  *)
(* A String is modelled as a sequence of one-character strings.  The       *)
(* integer types keep their two's-complement behaviour but are Bits wide   *)
(* instead of 32, so that the ends of their range are reached.  An         *)
(* arithmetic overflow panics when the build has overflow checks (debug)   *)
(* and wraps when it has not (release); the build is fixed in Init.        *)
(***************************************************************************)
EXTENDS Integers, Sequences, FiniteSets

VARIABLES
    overflow_checks,  \* the build: TRUE = overflow panics, FALSE = wraps
    ctor,             \* the constructor call that made the object
    cb,               \* the CodeBuffer object (pc = "none": not constructed)
    cb_h,             \* the last operation on cb: its name, argument, the
                      \* object before it, and its return value
    ip,               \* the IndentedPrinter object
    ip_h              \* the last operation on ip, and the write calls it made

vars == <<overflow_checks, ctor, cb, cb_h, ip, ip_h>>

\* ---------------------------------------------------------------- bounds

\* Width in bits of the model's i32 and u32.
Bits == 4

\* Writes are disabled once the buffer holds MaxLines entries.
MaxLines == 2

\* The texts handed to println, println_right, println_left: one text, with
\* an embedded newline.
Texts == { <<"b", "\n", "c">> }

\* The widths handed to CodeBuffer::new (any i32 is accepted).
CBWidths == {-4, 0, 4}

\* The widths handed to IndentedPrinter::new (any u32 is accepted).
IPWidths == {0, 4, 8}

\* ------------------------------------------------------------- integers

RECURSIVE Pow2(_)
Pow2(n) == IF n = 0 THEN 1 ELSE 2 * Pow2(n - 1)

I32_MIN == -Pow2(Bits - 1)
I32_MAX == Pow2(Bits - 1) - 1
U32_MAX == Pow2(Bits) - 1

InI32(x) == I32_MIN <= x /\ x <= I32_MAX
InU32(x) == 0 <= x /\ x <= U32_MAX

\* Two's-complement wrap of the mathematical result x.
WrapI32(x) == ((x - I32_MIN) % Pow2(Bits)) + I32_MIN
WrapU32(x) == x % Pow2(Bits)

\* -------------------------------------------------------------- strings

\* str::repeat
Repeat(c, n) == [i \in 1..n |-> c]

\* [String]::join: the first entry, then the separator before each next one.
RECURSIVE JoinFrom(_, _, _)
JoinFrom(v, sep, i) ==
    IF i > Len(v) THEN <<>> ELSE sep \o v[i] \o JoinFrom(v, sep, i + 1)

Join(v, sep) == IF Len(v) = 0 THEN <<>> ELSE v[1] \o JoinFrom(v, sep, 2)

\* -------------------------------------------------------------- objects

NoObj == [buffer |-> <<>>, indent |-> 0, level |-> 0, pc |-> "none"]

\* The operation panicked: the object is left as it was when the panic began.
Panicked(self) == [self EXCEPT !.pc = "panic"]

\* Return values: (), a String, Ok(n), Err(e).
Unit == [kind |-> "unit", n |-> 0, val |-> <<>>]
StringVal(s) == [kind |-> "string", n |-> 0, val |-> s]
OkVal(k) == [kind |-> "ok", n |-> k, val |-> <<>>]
ErrVal == [kind |-> "err", n |-> 0, val |-> <<>>]

\* ----------------------------------------------------------- CodeBuffer

CB_new(indent) == [buffer |-> <<>>, indent |-> indent, level |-> 0, pc |-> "ok"]

\* Mutant: default() indents by 2 spaces.
CB_default_two == [buffer |-> <<>>, indent |-> 2, level |-> 0, pc |-> "ok"]

CB_default == [buffer |-> <<>>, indent |-> 4, level |-> 0, pc |-> "ok"]

\* Mutant: every entry is followed by a newline, the last one too.
CB_to_string_trailing(self) ==
    Join(self.buffer, <<"\n">>) \o (IF Len(self.buffer) = 0 THEN <<>> ELSE <<"\n">>)

CB_to_string(self) == Join(self.buffer, <<"\n">>)

\* Mutant: println also returns to level 0.
CB_println_resets(self, str) ==
    LET indent_size == WrapI32(self.indent * self.level)
    IN  IF indent_size < 0 THEN Panicked(self)
        ELSE [self EXCEPT !.buffer = Append(@, Repeat(" ", indent_size) \o str),
                          !.level = 0]

\* indent * level in i32, the result cast to usize, " ".repeat of that, push.
\* A negative i32 cast to usize exceeds isize::MAX: repeat panics with
\* "capacity overflow".
CB_println(self, str) ==
    LET prod == self.indent * self.level
        indent_size == WrapI32(prod)
    IN  IF ~InI32(prod) /\ overflow_checks THEN Panicked(self)
        ELSE IF indent_size < 0 THEN Panicked(self)
        ELSE [self EXCEPT !.buffer = Append(@, Repeat(" ", indent_size) \o str)]

CB_indent_right(self) ==
    IF ~InI32(self.level + 1) /\ overflow_checks THEN Panicked(self)
    ELSE [self EXCEPT !.level = WrapI32(@ + 1)]

CB_indent_left(self) ==
    IF self.level > 0 THEN [self EXCEPT !.level = @ - 1] ELSE self

CB_println_right(self, str) ==
    LET a == CB_indent_right(self)
    IN  IF a.pc = "panic" THEN a ELSE CB_println(a, str)

\* Mutant: the call of indent_left is missing.
CB_println_left_noindent(self, str) == CB_println(self, str)

CB_println_left(self, str) ==
    LET a == CB_indent_left(self)
    IN  IF a.pc = "panic" THEN a ELSE CB_println(a, str)

\* ------------------------------------------------------ IndentedPrinter

IP_new(indent) == [buffer |-> <<>>, indent |-> indent, level |-> 0, pc |-> "ok"]

IP_default == [buffer |-> <<>>, indent |-> 4, level |-> 0, pc |-> "ok"]

IP_to_string(self) == Join(self.buffer, <<"\n">>)

\* Mutant: the entry is inserted at the front of the buffer.
IP_println_front(self, str) ==
    [self EXCEPT !.buffer = <<Repeat(" ", WrapU32(self.indent * self.level)) \o str>> \o @]

IP_println(self, str) ==
    LET prod == self.indent * self.level
        indent_size == WrapU32(prod)
    IN  IF ~InU32(prod) /\ overflow_checks THEN Panicked(self)
        ELSE [self EXCEPT !.buffer = Append(@, Repeat(" ", indent_size) \o str)]

\* Mutant: the indent width is incremented instead of the level.
IP_indent_right_width(self) == [self EXCEPT !.indent = WrapU32(@ + 1)]

IP_indent_right(self) ==
    IF ~InU32(self.level + 1) /\ overflow_checks THEN Panicked(self)
    ELSE [self EXCEPT !.level = WrapU32(@ + 1)]

IP_indent_left(self) ==
    IF self.level > 0 THEN [self EXCEPT !.level = @ - 1] ELSE self

IP_println_right(self, str) ==
    LET a == IP_indent_right(self)
    IN  IF a.pc = "panic" THEN a ELSE IP_println(a, str)

IP_println_left(self, str) ==
    LET a == IP_indent_left(self)
    IN  IF a.pc = "panic" THEN a ELSE IP_println(a, str)

\* What File::write may return for a buffer of len bytes: Ok(n) with
\* n <= len (nothing, a part, or all of it accepted), or Err.
WriteResults(len) ==
    {OkVal(k) : k \in {0, len \div 2, len}} \cup {ErrVal}

\* Mutant: a failed write is reported as Ok(0).
IP_flush_to_file_swallows(self, res) ==
    LET output == IP_to_string(self)
    IN  [self |-> self, wr |-> << [buf |-> output, res |-> res] >>,
         ret |-> IF res.kind = "err" THEN OkVal(0) ELSE res]

\* Mutant: the buffer is taken out of the object to be written.
IP_flush_to_file_takes(self, res) ==
    LET output == IP_to_string(self)
    IN  [self |-> [self EXCEPT !.buffer = <<>>],
         wr |-> << [buf |-> output, res |-> res] >>, ret |-> res]

\* flush_to_file: one write call with the bytes of to_string(); the call's
\* result res is what the function returns.
IP_flush_to_file(self, res) ==
    LET output == IP_to_string(self)
    IN  [self |-> self, wr |-> << [buf |-> output, res |-> res] >>, ret |-> res]

\* -------------------------------------------------------------- actions
\* A method is called on the object while no panic has ended its use.  A
\* call records itself in the history: the method, its argument, the object
\* before the call, the value returned and the write calls made.

Hist(name, str, old, ret, wr) ==
    [op |-> name, str |-> str, old |-> old, ret |-> ret, wr |-> wr]

CB_Step(name, str, new, ret) ==
    /\ cb' = new
    /\ cb_h' = Hist(name, str, cb, ret, <<>>)
    /\ UNCHANGED <<overflow_checks, ctor, ip, ip_h>>

CB_Println(s) ==
    /\ cb.pc = "ok"
    /\ Len(cb.buffer) < MaxLines
    /\ CB_Step("println", s, CB_println(cb, s), Unit)

CB_IndentRight ==
    /\ cb.pc = "ok"
    /\ CB_Step("indent_right", <<>>, CB_indent_right(cb), Unit)

CB_IndentLeft ==
    /\ cb.pc = "ok"
    /\ CB_Step("indent_left", <<>>, CB_indent_left(cb), Unit)

CB_PrintlnRight(s) ==
    /\ cb.pc = "ok"
    /\ Len(cb.buffer) < MaxLines
    /\ CB_Step("println_right", s, CB_println_right(cb, s), Unit)

CB_PrintlnLeft(s) ==
    /\ cb.pc = "ok"
    /\ Len(cb.buffer) < MaxLines
    /\ CB_Step("println_left", s, CB_println_left(cb, s), Unit)

\* Mutant: to_string drains the buffer it renders.
CB_ToString_drains ==
    /\ cb.pc = "ok"
    /\ CB_Step("to_string", <<>>, [cb EXCEPT !.buffer = <<>>],
               StringVal(CB_to_string(cb)))

CB_ToString ==
    /\ cb.pc = "ok"
    /\ CB_Step("to_string", <<>>, cb, StringVal(CB_to_string(cb)))

IP_Step(name, str, new, ret, wr) ==
    /\ ip' = new
    /\ ip_h' = Hist(name, str, ip, ret, wr)
    /\ UNCHANGED <<overflow_checks, ctor, cb, cb_h>>

IP_Println(s) ==
    /\ ip.pc = "ok"
    /\ Len(ip.buffer) < MaxLines
    /\ IP_Step("println", s, IP_println(ip, s), Unit, <<>>)

IP_IndentRight ==
    /\ ip.pc = "ok"
    /\ IP_Step("indent_right", <<>>, IP_indent_right(ip), Unit, <<>>)

IP_IndentLeft ==
    /\ ip.pc = "ok"
    /\ IP_Step("indent_left", <<>>, IP_indent_left(ip), Unit, <<>>)

IP_PrintlnRight(s) ==
    /\ ip.pc = "ok"
    /\ Len(ip.buffer) < MaxLines
    /\ IP_Step("println_right", s, IP_println_right(ip, s), Unit, <<>>)

IP_PrintlnLeft(s) ==
    /\ ip.pc = "ok"
    /\ Len(ip.buffer) < MaxLines
    /\ IP_Step("println_left", s, IP_println_left(ip, s), Unit, <<>>)

IP_ToString ==
    /\ ip.pc = "ok"
    /\ IP_Step("to_string", <<>>, ip, StringVal(IP_to_string(ip)), <<>>)

IP_FlushToFile ==
    /\ ip.pc = "ok"
    /\ \E res \in WriteResults(Len(IP_to_string(ip))) :
          LET f == IP_flush_to_file(ip, res)
          IN  IP_Step("flush_to_file", <<>>, f.self, f.ret, f.wr)

\* ------------------------------------------------------- specification

\* One object is constructed, by new(indent) or by default().
InitCB ==
    /\ \/ \E w \in CBWidths : /\ ctor = [fn |-> "new", indent |-> w]
                               /\ cb = CB_new(w)
                               /\ cb_h = Hist("new", <<>>, NoObj, Unit, <<>>)
       \/ /\ ctor = [fn |-> "default", indent |-> 0]
          /\ cb = CB_default
          /\ cb_h = Hist("default", <<>>, NoObj, Unit, <<>>)
    /\ ip = NoObj
    /\ ip_h = Hist("none", <<>>, NoObj, Unit, <<>>)

InitIP ==
    /\ \/ \E w \in IPWidths : /\ ctor = [fn |-> "new", indent |-> w]
                               /\ ip = IP_new(w)
                               /\ ip_h = Hist("new", <<>>, NoObj, Unit, <<>>)
       \/ /\ ctor = [fn |-> "default", indent |-> 0]
          /\ ip = IP_default
          /\ ip_h = Hist("default", <<>>, NoObj, Unit, <<>>)
    /\ cb = NoObj
    /\ cb_h = Hist("none", <<>>, NoObj, Unit, <<>>)

Init ==
    /\ overflow_checks \in BOOLEAN
    /\ (InitCB \/ InitIP)

CBNext ==
    \/ \E s \in Texts : CB_Println(s)
    \/ CB_IndentRight
    \/ CB_IndentLeft
    \/ \E s \in Texts : CB_PrintlnRight(s)
    \/ \E s \in Texts : CB_PrintlnLeft(s)
    \/ CB_ToString

IPNext ==
    \/ \E s \in Texts : IP_Println(s)
    \/ IP_IndentRight
    \/ IP_IndentLeft
    \/ \E s \in Texts : IP_PrintlnRight(s)
    \/ \E s \in Texts : IP_PrintlnLeft(s)
    \/ IP_ToString
    \/ IP_FlushToFile

Next == CBNext \/ IPNext

Spec == Init /\ [][Next]_vars

\* ------------------------------------------- the two implementations
\* A CodeBuffer and an IndentedPrinter are constructed with the same indent
\* width (one both types hold) and receive the same calls, of the methods
\* both have, until one of them panics.

PairWidths == {w \in CBWidths \cap IPWidths : InI32(w) /\ InU32(w)}

InitPair ==
    /\ overflow_checks \in BOOLEAN
    /\ \/ \E w \in PairWidths : /\ ctor = [fn |-> "new", indent |-> w]
                                 /\ cb = CB_new(w)
                                 /\ ip = IP_new(w)
       \/ /\ ctor = [fn |-> "default", indent |-> 0]
          /\ cb = CB_default
          /\ ip = IP_default
    /\ cb_h = Hist(ctor.fn, <<>>, NoObj, Unit, <<>>)
    /\ ip_h = Hist(ctor.fn, <<>>, NoObj, Unit, <<>>)

PairStep(name, str, newcb, retcb, newip, retip) ==
    /\ cb' = newcb
    /\ cb_h' = Hist(name, str, cb, retcb, <<>>)
    /\ ip' = newip
    /\ ip_h' = Hist(name, str, ip, retip, <<>>)
    /\ UNCHANGED <<overflow_checks, ctor>>

BothOk == cb.pc = "ok" /\ ip.pc = "ok"

BothRoom == Len(cb.buffer) < MaxLines /\ Len(ip.buffer) < MaxLines

Pair_Println(s) ==
    /\ BothOk
    /\ BothRoom
    /\ PairStep("println", s, CB_println(cb, s), Unit, IP_println(ip, s), Unit)

Pair_IndentRight ==
    /\ BothOk
    /\ PairStep("indent_right", <<>>, CB_indent_right(cb), Unit,
                IP_indent_right(ip), Unit)

Pair_IndentLeft ==
    /\ BothOk
    /\ PairStep("indent_left", <<>>, CB_indent_left(cb), Unit,
                IP_indent_left(ip), Unit)

Pair_PrintlnRight(s) ==
    /\ BothOk
    /\ BothRoom
    /\ PairStep("println_right", s, CB_println_right(cb, s), Unit,
                IP_println_right(ip, s), Unit)

Pair_PrintlnLeft(s) ==
    /\ BothOk
    /\ BothRoom
    /\ PairStep("println_left", s, CB_println_left(cb, s), Unit,
                IP_println_left(ip, s), Unit)

Pair_ToString ==
    /\ BothOk
    /\ PairStep("to_string", <<>>, cb, StringVal(CB_to_string(cb)),
                ip, StringVal(IP_to_string(ip)))

PairNext ==
    \/ \E s \in Texts : Pair_Println(s)
    \/ Pair_IndentRight
    \/ Pair_IndentLeft
    \/ \E s \in Texts : Pair_PrintlnRight(s)
    \/ \E s \in Texts : Pair_PrintlnLeft(s)
    \/ Pair_ToString

SpecPair == InitPair /\ [][PairNext]_vars

\* --------------------------------------------------------------- claims

\* h records an operation on an object (not its construction).
Acted(h) == h.op \notin {"none", "new", "default"}

IsPrefix(a, b) == Len(a) <= Len(b) /\ SubSeq(b, 1, Len(a)) = a

Spaces(n) == [i \in 1..n |-> " "]

\* The object o after text was written at level lv, from the object old.
WrittenAt(old, lv, text) ==
    [buffer |-> Append(old.buffer, Spaces(old.indent * lv) \o text),
     indent |-> old.indent, level |-> lv, pc |-> "ok"]

\* C1: println(text) appends exactly one entry at the end of the buffer, and
\* the entry is indent * level spaces followed by text, level being the level
\* at the call.
C1_PrintlnAppendsIndented ==
    /\ cb_h.op = "println" => cb = WrittenAt(cb_h.old, cb_h.old.level, cb_h.str)
    /\ ip_h.op = "println" => ip = WrittenAt(ip_h.old, ip_h.old.level, ip_h.str)

\* C2: the level is never negative; indent_left at level 0 leaves the level
\* at 0 without failing, and above 0 it decrements the level by exactly 1.
C2_LevelNeverNegative ==
    /\ cb.level >= 0
    /\ ip.level >= 0
    /\ cb_h.op = "indent_left" =>
          /\ cb.pc = "ok"
          /\ cb_h.old.level = 0 => cb.level = 0
          /\ cb_h.old.level > 0 => cb.level = cb_h.old.level - 1
    /\ ip_h.op = "indent_left" =>
          /\ ip.pc = "ok"
          /\ ip_h.old.level = 0 => ip.level = 0
          /\ ip_h.old.level > 0 => ip.level = ip_h.old.level - 1

\* C3: the buffer is append-only: whatever the operation (println,
\* indent_right, indent_left, println_right, println_left, to_string,
\* flush_to_file), the buffer before it is a prefix of the buffer after it.
C3_BufferAppendOnly ==
    /\ Acted(cb_h) => IsPrefix(cb_h.old.buffer, cb.buffer)
    /\ Acted(ip_h) => IsPrefix(ip_h.old.buffer, ip.buffer)

\* C3's case: a second entry was pushed at another level than the first.
C3_Witness ==
    /\ ip_h.op \in {"println", "println_left", "println_right"}
    /\ Len(ip_h.old.buffer) = 1
    /\ Len(ip.buffer) = 2
    /\ ip.buffer[1] # ip.buffer[2]

\* Where entry i of v begins in the text of v's entries with one separator
\* between neighbours (the number of characters before it).
RECURSIVE Offset(_, _)
Offset(v, i) == IF i = 1 THEN 0 ELSE Offset(v, i - 1) + Len(v[i - 1]) + 1

\* r is v's entries in order with exactly one newline between neighbours, and
\* nothing before the first or after the last.
JoinedByNewline(v, r) ==
    IF Len(v) = 0 THEN r = <<>>
    ELSE /\ Len(r) = Offset(v, Len(v)) + Len(v[Len(v)])
         /\ \A i \in 1..Len(v) :
               SubSeq(r, Offset(v, i) + 1, Offset(v, i) + Len(v[i])) = v[i]
         /\ \A i \in 2..Len(v) : r[Offset(v, i)] = "\n"

\* C4: to_string returns the entries in insertion order joined by a single
\* newline: n - 1 separators for n >= 1 entries, no leading or trailing
\* newline, and the empty string for an empty buffer.
C4_ToStringJoins ==
    /\ cb_h.op = "to_string" =>
          cb_h.ret.kind = "string" /\ JoinedByNewline(cb.buffer, cb_h.ret.val)
    /\ ip_h.op = "to_string" =>
          ip_h.ret.kind = "string" /\ JoinedByNewline(ip.buffer, ip_h.ret.val)

\* C4's case: to_string on a buffer of two entries.
C4_Witness == cb_h.op = "to_string" /\ Len(cb.buffer) = 2 /\ cb.level > 0

\* C5: every operation completes normally: no object ever panics.
C5_NoPanic == cb.pc # "panic" /\ ip.pc # "panic"

\* C6: indent_right increments the level by exactly 1 from every level: it
\* never fails, wraps, or leaves the level unchanged.
C6_IndentRightIncrements ==
    /\ cb_h.op = "indent_right" =>
          cb.pc = "ok" /\ cb.level = cb_h.old.level + 1
    /\ ip_h.op = "indent_right" =>
          ip.pc = "ok" /\ ip.level = ip_h.old.level + 1

\* C7: the indent width of a constructed object is never negative, in either
\* implementation.
C7_IndentNonNegative == cb.indent >= 0 /\ ip.indent >= 0

\* C8: the indent width never changes: after every operation it is the value
\* passed to new, or 4 for default.
C8_IndentImmutable ==
    LET given == IF ctor.fn = "default" THEN 4 ELSE ctor.indent
    IN  /\ cb.pc # "none" => cb.indent = given
        /\ ip.pc # "none" => ip.indent = given
        /\ Acted(cb_h) => cb.indent = cb_h.old.indent
        /\ Acted(ip_h) => ip.indent = ip_h.old.indent

\* C8's case: the level has moved and lines were written and flushed.
C8_Witness ==
    /\ ip_h.op = "flush_to_file"
    /\ Len(ip.buffer) = 2
    /\ ip.level > 0
    /\ ip.indent = 4

\* C9: println_right(text) ends in the state of indent_right followed by
\* println(text): the new entry has indent * (old level + 1) spaces and the
\* level stays at old level + 1.
C9_PrintlnRight ==
    /\ cb_h.op = "println_right" =>
          /\ LET a == CB_indent_right(cb_h.old)
             IN  cb = IF a.pc = "ok" THEN CB_println(a, cb_h.str) ELSE a
          /\ cb = WrittenAt(cb_h.old, cb_h.old.level + 1, cb_h.str)
    /\ ip_h.op = "println_right" =>
          /\ LET a == IP_indent_right(ip_h.old)
             IN  ip = IF a.pc = "ok" THEN IP_println(a, ip_h.str) ELSE a
          /\ ip = WrittenAt(ip_h.old, ip_h.old.level + 1, ip_h.str)

\* C10: println_left(text) ends in the state of indent_left followed by
\* println(text); at level 0 that is the state of println(text) at level 0:
\* an entry without prefix, and the level still 0.
C10_PrintlnLeft ==
    /\ cb_h.op = "println_left" =>
          /\ cb = CB_println(CB_indent_left(cb_h.old), cb_h.str)
          /\ cb_h.old.level = 0 =>
                /\ cb = CB_println(cb_h.old, cb_h.str)
                /\ cb = WrittenAt(cb_h.old, 0, cb_h.str)
                /\ cb.buffer[Len(cb.buffer)] = cb_h.str
    /\ ip_h.op = "println_left" =>
          /\ ip = IP_println(IP_indent_left(ip_h.old), ip_h.str)
          /\ ip_h.old.level = 0 =>
                /\ ip = IP_println(ip_h.old, ip_h.str)
                /\ ip = WrittenAt(ip_h.old, 0, ip_h.str)
                /\ ip.buffer[Len(ip.buffer)] = ip_h.str

\* C10's case: println_left called at level 0, after an earlier entry.
C10_Witness ==
    /\ cb_h.op = "println_left"
    /\ cb_h.old.level = 0
    /\ cb.indent # 0
    /\ Len(cb.buffer) = 2

\* C11: to_string has no side effects: buffer, level and indent are as before
\* the call, and to_string on the object it leaves returns the same string
\* again.
C11_ToStringPure ==
    /\ cb_h.op = "to_string" =>
          cb = cb_h.old /\ cb_h.ret = StringVal(CB_to_string(cb))
    /\ ip_h.op = "to_string" =>
          ip = ip_h.old /\ ip_h.ret = StringVal(IP_to_string(ip))

\* C11's case: to_string on an indented buffer of two entries.
C11_Witness ==
    /\ ip_h.op = "to_string"
    /\ Len(ip.buffer) = 2
    /\ ip.level > 0
    /\ Len(ip_h.ret.val) > 0

\* C12: flush_to_file hands the whole rendered text to the file in exactly
\* one write call, and a flush that returns success has left no part of the
\* text unwritten.
C12_FlushWritesAll ==
    ip_h.op = "flush_to_file" =>
        /\ Len(ip_h.wr) = 1
        /\ ip_h.wr[1].buf = IP_to_string(ip_h.old)
        /\ ip_h.ret.kind = "ok" => ip_h.wr[1].res.n = Len(ip_h.wr[1].buf)

\* C13: flush_to_file returns exactly what the write call returned: the same
\* failure, or the same byte count.
C13_FlushReturnsWriteResult ==
    ip_h.op = "flush_to_file" =>
        /\ Len(ip_h.wr) = 1
        /\ ip_h.ret = ip_h.wr[1].res
        /\ ip_h.ret.kind \in {"ok", "err"}

\* C13's case: the write call failed on a non-empty text.
C13_Witness ==
    /\ ip_h.op = "flush_to_file"
    /\ Len(ip.buffer) > 0
    /\ ip_h.wr[1].res.kind = "err"

Fresh(w) == [buffer |-> <<>>, indent |-> w, level |-> 0, pc |-> "ok"]

\* C14: default() constructs the state new(4) constructs: no entries, level
\* 0, indent 4; new(w) constructs no entries, level 0, indent w.  (Every
\* operation being a function of the object, the two then agree after every
\* step of a common sequence of calls.)
C14_DefaultIsNew4 ==
    /\ CB_default = CB_new(4)
    /\ IP_default = IP_new(4)
    /\ cb_h.op = "default" => cb = Fresh(4)
    /\ ip_h.op = "default" => ip = Fresh(4)
    /\ cb_h.op = "new" => cb = Fresh(ctor.indent)
    /\ ip_h.op = "new" => ip = Fresh(ctor.indent)

\* C14's case: a CodeBuffer just made by default().
C14_Witness == cb_h.op = "default" /\ ctor.fn = "default" /\ cb.pc = "ok"

\* e is text verbatim after nothing but spaces; PrefixLen is their number.
PrefixLen(e, text) == Len(e) - Len(text)

Verbatim(e, text) ==
    /\ Len(e) >= Len(text)
    /\ SubSeq(e, PrefixLen(e, text) + 1, Len(e)) = text
    /\ \A i \in 1..PrefixLen(e, text) : e[i] = " "

Last(v) == v[Len(v)]

LevelOps == {"indent_right", "indent_left", "println_right", "println_left"}

WriteOps == {"println", "println_right", "println_left"}

\* C15: println leaves the level unchanged; only indent_right, indent_left,
\* println_right and println_left change it; so the entries of consecutive
\* println calls, in call order, all carry the same prefix.
C15_PrintlnKeepsLevel ==
    /\ cb_h.op = "println" => cb.level = cb_h.old.level
    /\ ip_h.op = "println" => ip.level = ip_h.old.level
    /\ (Acted(cb_h) /\ cb.level # cb_h.old.level) => cb_h.op \in LevelOps
    /\ (Acted(ip_h) /\ ip.level # ip_h.old.level) => ip_h.op \in LevelOps
    /\ (cb_h.op = "println" /\ cb.pc = "ok") =>
          \A s \in Texts :
              LET n == CB_println(cb, s)
              IN  /\ n.pc = "ok"
                  /\ n.level = cb.level
                  /\ SubSeq(n.buffer, 1, Len(cb.buffer)) = cb.buffer
                  /\ Len(n.buffer) = Len(cb.buffer) + 1
                  /\ Verbatim(Last(n.buffer), s)
                  /\ PrefixLen(Last(n.buffer), s)
                        = PrefixLen(Last(cb.buffer), cb_h.str)
    /\ (ip_h.op = "println" /\ ip.pc = "ok") =>
          \A s \in Texts :
              LET n == IP_println(ip, s)
              IN  /\ n.pc = "ok"
                  /\ n.level = ip.level
                  /\ SubSeq(n.buffer, 1, Len(ip.buffer)) = ip.buffer
                  /\ Len(n.buffer) = Len(ip.buffer) + 1
                  /\ Verbatim(Last(n.buffer), s)
                  /\ PrefixLen(Last(n.buffer), s)
                        = PrefixLen(Last(ip.buffer), ip_h.str)

\* C15's case: a second println in a row, at an indented level.
C15_Witness ==
    /\ cb_h.op = "println"
    /\ cb_h.old.level > 0
    /\ Len(cb.buffer) = 2
    /\ cb.buffer[1] = cb.buffer[2]
    /\ PrefixLen(cb.buffer[2], cb_h.str) > 0

\* C16: a text is stored verbatim as one entry: every write call (println,
\* println_right, println_left) adds exactly one entry, whatever the text,
\* and no other call adds or removes one, so the entries number the write
\* calls made; the prefix stands once, before the text, and nowhere inside.
C16_OneEntryPerWrite ==
    /\ cb_h.op \in WriteOps =>
          /\ Len(cb.buffer) = Len(cb_h.old.buffer) + 1
          /\ Verbatim(Last(cb.buffer), cb_h.str)
    /\ ip_h.op \in WriteOps =>
          /\ Len(ip.buffer) = Len(ip_h.old.buffer) + 1
          /\ Verbatim(Last(ip.buffer), ip_h.str)
    /\ (Acted(cb_h) /\ cb_h.op \notin WriteOps) =>
          Len(cb.buffer) = Len(cb_h.old.buffer)
    /\ (Acted(ip_h) /\ ip_h.op \notin WriteOps) =>
          Len(ip.buffer) = Len(ip_h.old.buffer)

\* C17: CodeBuffer and IndentedPrinter, constructed with the same indent
\* width and given the same calls, hold the same level and the same entries
\* after every step, return the same text from to_string, and neither fails
\* where the other succeeds.
C17_SameBehaviour ==
    (cb.pc # "none" /\ ip.pc # "none") =>
        /\ cb.pc = ip.pc
        /\ cb.level = ip.level
        /\ cb.buffer = ip.buffer
        /\ cb.indent = ip.indent
        /\ cb_h.ret = ip_h.ret

\* C18: indent_right followed by indent_left restores the level (and leaves
\* the entries untouched); indent_left followed by indent_right restores the
\* level exactly when it was above 0, and otherwise ends at level 1.
C18_RightLeftRoundTrip ==
    /\ cb_h.op = "indent_right" =>
          /\ cb.pc = "ok"
          /\ CB_indent_left(cb) = cb_h.old
    /\ ip_h.op = "indent_right" =>
          /\ ip.pc = "ok"
          /\ IP_indent_left(ip) = ip_h.old
    /\ cb_h.op = "indent_left" =>
          LET n == CB_indent_right(cb)
          IN  /\ n.pc = "ok"
              /\ n.buffer = cb_h.old.buffer
              /\ n.level = IF cb_h.old.level > 0 THEN cb_h.old.level ELSE 1
              /\ (n.level = cb_h.old.level) <=> (cb_h.old.level > 0)
    /\ ip_h.op = "indent_left" =>
          LET n == IP_indent_right(ip)
          IN  /\ n.pc = "ok"
              /\ n.buffer = ip_h.old.buffer
              /\ n.level = IF ip_h.old.level > 0 THEN ip_h.old.level ELSE 1
              /\ (n.level = ip_h.old.level) <=> (ip_h.old.level > 0)

\* C19: flush_to_file leaves buffer, level and indent as they were, whether
\* the write accepts all, a part, or fails; to_string afterwards gives the
\* text that was handed to the write, and a second flush hands over the same
\* bytes.
C19_FlushKeepsBuffer ==
    ip_h.op = "flush_to_file" =>
        /\ ip = ip_h.old
        /\ IP_to_string(ip) = ip_h.wr[1].buf
        /\ \A res \in WriteResults(Len(IP_to_string(ip))) :
              LET f == IP_flush_to_file(ip, res)
              IN  f.self = ip_h.old /\ f.wr[1].buf = ip_h.wr[1].buf

\* C19's case: the write accepted only a part of a text of two entries.
C19_Witness ==
    /\ ip_h.op = "flush_to_file"
    /\ Len(ip.buffer) = 2
    /\ ip_h.ret.kind = "ok"
    /\ ip_h.ret.n > 0
    /\ ip_h.ret.n < Len(ip_h.wr[1].buf)

====
